---- MODULE Spec2Model ----
(***************************************************************************)
(* tauri-plugin-mic-recorder: the recording session of src/commands.rs.    *)
(*                                                                         *)
(* The process-wide STATE (is_recording, save_path, writer, stream) behind *)
(* its mutex, the two commands start_recording and stop_recording run by   *)
(* caller threads, and the audio callback write_input_data run by the      *)
(* platform's audio thread of each stream.  The platform (cpal), the WAV   *)
(* writer (hound) and the file system are the environment: each of their   *)
(* operations either succeeds or reports an error.                         *)
(***************************************************************************)
EXTENDS Integers, Sequences, FiniteSets, TLC

\* ------------------------------------------------------------------ bounds
\* Number of WAV writers (starts that reach WavWriter::create) in a run.
MaxW == 2
\* The wall clock, in whole seconds, runs from 0 to MaxClock.
MaxClock == 1
\* Samples the platform delivers in a run, over all buffers and streams.
MaxSamples == 2
\* Samples in one delivered buffer.
MaxBuf == 2

\* Caller threads invoking the two commands.
Threads == {1, 2}
\* Command-line values of Opt.device (line 50): the default, or a device name.
DeviceArgs == {"default", "named"}

\* Writer / stream / Arc identities: 0 is the Arc created by State::new.
Ids == 1..MaxW
Arcs == 0..MaxW
Seconds == 0..MaxClock

\* The samples the platform delivers are numbered in delivery order, so
\* that a lost, repeated or misplaced sample shows in the file: the buffer
\* of k samples delivered after `done` samples.
Buffer(done, k) == [i \in 1..k |-> done + i]

VARIABLES
    \* --- the State struct behind STATE (lines 27-45)
    is_recording,   \* AtomicBool
    save_path,      \* Option<PathBuf>: {} is None, {p} is Some(p)
    state_writer,   \* the Arc stored in State.writer (an Arc identity)
    state_stream,   \* Option<SafeStream>: 0 is None, n is the stream of start n
    lock,           \* holder of the STATE mutex: 0 free, else a thread
    \* --- heap objects
    cell,           \* cell[a]: the Option inside Arc a holds its WavWriter
    wlock,          \* wlock[a]: holder of the mutex inside Arc a
    wr,             \* wr[n]: the WavWriter created by start n: its path, the
                    \* samples it counts (while it exists: finalize and
                    \* drop consume it), and the times it was finalized
                    \* (by finalize, or by Drop)
    streamSt,       \* streamSt[n]: "none", "playing", "dropped"
    file,           \* the file system under the save directory, by path
    \* --- threads
    pc,             \* position of each caller thread
    lw,             \* start_recording's local `writer` (0: not yet created)
    tw,             \* stop_recording's local `writer` taken at line 221
    cbpc,           \* position of each stream's audio callback: "idle",
                    \* "called" (before try_lock), "writing" (lock held)
    cbbuf,          \* samples of the current buffer still to write
    \* --- environment
    now,            \* wall clock, in seconds
    nextW,          \* next writer identity
    fed,            \* samples delivered so far
    \* --- history (read by the properties only)
    ret,            \* the command return made by the last step, if any
    sessOk,         \* a start succeeded and no stop passed its check since
    stopSess,       \* the session the stop in progress began on (0: none)
    \* since the last stop that passed its check:
    nOk,            \* starts that returned Ok (0, 1, or 2 for more)
    flips,          \* stores that turned is_recording from false to true
    epochErr,       \* a start returned an error other than AlreadyRecording
    conc,           \* two starts were in flight together before any had won
    race,           \* the start and the stop launched together on an idle
                    \* session, until the stop returns or the start fails
    \* per stream, until the stop of its session returns:
    delivered,      \* the samples of the buffers delivered, in order
    lost,           \* a buffer was dropped because the writer mutex was held
    busy,           \* a stop was in flight during a step of a callback
    wfail,          \* a write_sample call returned an error
    errlog          \* err_fn printed a stream error on stderr

vars == <<is_recording, save_path, state_writer, state_stream, lock, cell, wlock,
          wr, streamSt, file, pc, lw, tw, cbpc, cbbuf, now, nextW, fed,
          ret, sessOk, stopSess, nOk, flips, epochErr, conc, race,
          delivered, lost, busy, wfail, errlog>>

sessionVars == <<is_recording, save_path, state_writer, state_stream>>
heapVars == <<cell, wlock, wr, streamSt, file>>
cbVars == <<cbpc, cbbuf>>
envVars == <<now, nextW, fed>>
epochVars == <<nOk, flips, epochErr, conc>>
cbHist == <<delivered, lost, busy, wfail, errlog>>

StartPcs == {"st_wait", "st_setup", "st_stream", "st_store"}
StopPcs == {"sp_wait", "sp_stream", "sp_writer", "sp_final", "sp_path"}

NoFile == [exists |-> FALSE, data |-> <<>>, hdr |-> 0]
NoWriter == [path |-> {}, count |-> 0, fin |-> 0]
NoRet == [op |-> "none", val |-> "none", path |-> {}]
NoRace == [s |-> 0, p |-> 0, ok |-> FALSE]

Sat(x) == IF x < 2 THEN x + 1 ELSE 2

\* ------------------------------------------------------- pure functions

\* get_save_path: the file "<timestamp>.wav" in the plugin's directory under
\* the app data directory; the timestamp is Local::now() formatted
\* "%Y%m%d%H%M%S", that is the clock read to the second.
get_save_path(sec) == <<"tauri-plugin-mic-recorder", sec>>

Paths == {get_save_path(sec) : sec \in Seconds}

\* U::from_sample(sample) with U = T in each of the four instantiations
\* (i8/i8, i16/i16, i32/i32, f32/f32): the sample's value is kept.
from_sample(s) == s

\* WavWriter::create: File::create truncates or creates the file, and the
\* header is written with a data length of zero.
CreatedFile == [exists |-> TRUE, data |-> <<>>, hdr |-> 0]

\* WavWriter::write_sample: one more sample in the file.
AppendSample(f, s) == [f EXCEPT !.data = Append(@, from_sample(s))]

\* WavWriter::finalize / update_header: the header gets the count written.
FixHeader(f, w) == [f EXCEPT !.hdr = w.count]

PathOf(n) == CHOOSE p \in wr[n].path : TRUE

State_new ==
    /\ is_recording = FALSE
    /\ save_path = {}
    /\ state_writer = 0
    /\ state_stream = 0

Init ==
    /\ State_new
    /\ lock = 0
    /\ cell = [a \in Arcs |-> FALSE]
    /\ wlock = [a \in Arcs |-> "free"]
    /\ wr = [n \in Ids |-> NoWriter]
    /\ streamSt = [n \in Ids |-> "none"]
    /\ file = [p \in Paths |-> NoFile]
    /\ pc = [t \in Threads |-> "idle"]
    /\ lw = 0
    /\ tw = 0
    /\ cbpc = [n \in Ids |-> "idle"]
    /\ cbbuf = [n \in Ids |-> <<>>]
    /\ now = 0
    /\ nextW = 1
    /\ fed = 0
    /\ ret = NoRet
    /\ sessOk = FALSE
    /\ stopSess = 0
    /\ nOk = 0
    /\ flips = 0
    /\ epochErr = FALSE
    /\ conc = FALSE
    /\ race = NoRace
    /\ delivered = [n \in Ids |-> <<>>]
    /\ lost = [n \in Ids |-> FALSE]
    /\ busy = [n \in Ids |-> FALSE]
    /\ wfail = [n \in Ids |-> FALSE]
    /\ errlog = [n \in Ids |-> FALSE]

\* A command returns: its result is recorded and the thread is idle again.
\* A race of a start and a stop is followed until its stop returns or its
\* start fails.
Return(t, op, val, path) ==
    /\ ret' = [op |-> op, val |-> val, path |-> path]
    /\ pc' = [pc EXCEPT ![t] = "idle"]
    /\ race' = IF t = race.s /\ val = "Ok"
                 THEN [race EXCEPT !.ok = TRUE]
                 ELSE IF t \in {race.s, race.p} THEN NoRace ELSE race

\* A step of a command that does not return.
Goto(t, where) ==
    /\ ret' = NoRet
    /\ pc' = [pc EXCEPT ![t] = where]
    /\ race' = race

\* State::new's session, or the same left by a stop: nothing active, nothing
\* stored.
Idle ==
    /\ ~is_recording
    /\ save_path = {}
    /\ state_stream = 0
    /\ ~cell[state_writer]

\* A command is invoked on thread t.  It is one of a start and a stop
\* launched together on an idle session when the other thread has made the
\* other call and has not yet taken the STATE lock.
Launch(t, where, other) ==
    /\ ret' = NoRet
    /\ pc' = [pc EXCEPT ![t] = where]
    /\ race' = IF Idle /\ lock = 0 /\ \E u \in Threads \ {t} : pc[u] = other
                 THEN LET u == CHOOSE u \in Threads \ {t} : pc[u] = other
                      IN  IF where = "st_wait"
                            THEN [s |-> t, p |-> u, ok |-> FALSE]
                            ELSE [s |-> u, p |-> t, ok |-> FALSE]
                 ELSE NoRace

StopInFlight == \E t \in Threads : pc[t] \in StopPcs

\* ------------------------------------------------------ start_recording

\* The command is invoked: the caller thread is about to take STATE.lock().
\* A run makes start calls while a writer can still be created.
StartCall(t) ==
    /\ pc[t] = "idle"
    /\ nextW <= MaxW
    /\ Launch(t, "st_wait", "sp_wait")
    /\ conc' = (conc \/ (~sessOk /\ \E u \in Threads \ {t} : pc[u] \in StartPcs))
    /\ UNCHANGED <<sessionVars, lock, heapVars, lw, tw, cbVars, envVars, sessOk,
                   stopSess, nOk, flips, epochErr, cbHist>>

\* Lines 78-82 with the check of line 79 left out.
StartEnter_NoCheck(t) ==
    /\ pc[t] = "st_wait"
    /\ lock = 0
    /\ lock' = t
    /\ is_recording' = TRUE
    /\ flips' = IF is_recording THEN flips ELSE Sat(flips)
    /\ Goto(t, "st_setup")
    /\ UNCHANGED <<save_path, state_writer, state_stream, heapVars, lw, tw,
                   cbVars, envVars, sessOk, stopSess, nOk, epochErr, conc,
                   cbHist>>

\* Lines 78-82 with the store of line 82 left out.
StartEnter_NoStore(t) ==
    /\ pc[t] = "st_wait"
    /\ lock = 0
    /\ IF is_recording
         THEN /\ Return(t, "start", "AlreadyRecording", {})
              /\ UNCHANGED lock
         ELSE /\ lock' = t
              /\ Goto(t, "st_setup")
    /\ UNCHANGED <<sessionVars, heapVars, lw, tw, cbVars, envVars, sessOk,
                   stopSess, epochVars, cbHist>>

\* Lines 78-82: take the STATE lock; if is_recording, return the error (the
\* guard is dropped); else store true and go on holding the lock.
StartEnter(t) ==
    /\ pc[t] = "st_wait"
    /\ lock = 0
    /\ IF is_recording
         THEN /\ Return(t, "start", "AlreadyRecording", {})
              /\ UNCHANGED <<lock, is_recording, flips>>
         ELSE /\ lock' = t
              /\ is_recording' = TRUE
              /\ flips' = Sat(flips)
              /\ Goto(t, "st_setup")
    /\ UNCHANGED <<save_path, state_writer, state_stream, heapVars, lw, tw,
                   cbVars, envVars, sessOk, stopSess, nOk, epochErr, conc,
                   cbHist>>

\* The errors lines 84-136 can return before a file is touched, by the
\* branch of line 122 that the device argument selects.
SetupErrors(dev) ==
    (IF dev = "default" THEN {"NoDefaultDevice"}
                        ELSE {"DevicesError", "DeviceNotFound"})
    \cup {"ConfigUnavailable", "StorageUnavailable"}

\* An error return of start_recording through `?` or `return Err`: the
\* STATE guard is dropped; nothing else is undone.
StartFail(t, err) ==
    /\ Return(t, "start", err, {})
    /\ lock' = 0
    /\ epochErr' = TRUE
    /\ lw' = 0

\* Lines 84-140 with the file opened for appending instead of created.
StartSetup_NoTruncate(t) ==
    /\ pc[t] = "st_setup"
    /\ \/ /\ \E dev \in DeviceArgs : \E err \in SetupErrors(dev) :
                 StartFail(t, err)
          /\ UNCHANGED <<heapVars, nextW>>
       \/ /\ StartFail(t, "WriterInitFailed")
          /\ UNCHANGED <<heapVars, nextW>>
       \/ /\ nextW <= MaxW
          /\ file' = [file EXCEPT ![get_save_path(now)].exists = TRUE]
          /\ wr' = [wr EXCEPT ![nextW] =
                       [path |-> {get_save_path(now)}, count |-> 0, fin |-> 0]]
          /\ cell' = [cell EXCEPT ![nextW] = TRUE]
          /\ lw' = nextW
          /\ nextW' = nextW + 1
          /\ Goto(t, "st_stream")
          /\ UNCHANGED <<lock, wlock, streamSt, epochErr>>
    /\ UNCHANGED <<sessionVars, tw, cbVars, now, fed, sessOk, stopSess, nOk,
                   flips, conc, cbHist>>

\* Lines 84-140: device, config, save path, WavWriter::create.
StartSetup(t) ==
    /\ pc[t] = "st_setup"
    /\ \/ \* device / config / get_save_path fail: `?` returns the error
          /\ \E dev \in DeviceArgs : \E err \in SetupErrors(dev) :
                 StartFail(t, err)
          /\ UNCHANGED <<heapVars, nextW>>
       \/ \* WavWriter::create fails, before or after File::create
          /\ StartFail(t, "WriterInitFailed")
          /\ \/ file' = file
             \/ file' = [file EXCEPT ![get_save_path(now)] = CreatedFile]
          /\ UNCHANGED <<cell, wlock, wr, streamSt, nextW>>
       \/ \* the writer is created and wrapped in a new Arc<Mutex<Option<_>>>
          /\ nextW <= MaxW
          /\ file' = [file EXCEPT ![get_save_path(now)] = CreatedFile]
          /\ wr' = [wr EXCEPT ![nextW] =
                       [path |-> {get_save_path(now)}, count |-> 0, fin |-> 0]]
          /\ cell' = [cell EXCEPT ![nextW] = TRUE]
          /\ lw' = nextW
          /\ nextW' = nextW + 1
          /\ Goto(t, "st_stream")
          /\ UNCHANGED <<lock, wlock, streamSt, epochErr>>
    /\ UNCHANGED <<sessionVars, tw, cbVars, now, fed, sessOk, stopSess, nOk,
                   flips, conc, cbHist>>

\* The local writer goes out of scope on an error return: both Arc clones
\* are dropped, and WavWriter's Drop updates the header of a writer that was
\* not finalized.
DropLocalWriter(n) ==
    /\ cell' = [cell EXCEPT ![n] = FALSE]
    /\ wr' = [wr EXCEPT ![n].fin = @ + 1, ![n].count = 0]
    /\ file' = [file EXCEPT ![PathOf(n)] = FixHeader(@, wr[n])]

\* Lines 143-185: build the input stream for the sample format, and play.
StartStream(t) ==
    /\ pc[t] = "st_stream"
    /\ \/ /\ \E err \in {"UnsupportedFormat", "StreamBuildFailed"} :
                 StartFail(t, err)
          /\ DropLocalWriter(lw)
          /\ UNCHANGED <<wlock, streamSt>>
       \/ /\ StartFail(t, "StreamStartFailed")
          /\ DropLocalWriter(lw)
          /\ streamSt' = [streamSt EXCEPT ![lw] = "dropped"]
          /\ UNCHANGED wlock
       \/ /\ streamSt' = [streamSt EXCEPT ![lw] = "playing"]
          /\ Goto(t, "st_store")
          /\ UNCHANGED <<lock, cell, wlock, wr, file, lw, epochErr>>
    /\ UNCHANGED <<sessionVars, tw, cbVars, envVars, sessOk, stopSess, nOk,
                   flips, conc, cbHist>>

\* Lines 187-191: store path, writer and stream in the State, return Ok.
\* Assigning over a stored stream or writer drops the old value.
StartStore(t) ==
    /\ pc[t] = "st_store"
    /\ save_path' = wr[lw].path
    /\ state_writer' = lw
    /\ state_stream' = lw
    /\ streamSt' = IF state_stream # 0
                     THEN [streamSt EXCEPT ![state_stream] = "dropped"]
                     ELSE streamSt
    /\ IF cell[state_writer]
         THEN /\ cell' = [cell EXCEPT ![state_writer] = FALSE]
              /\ wr' = [wr EXCEPT ![state_writer].fin = @ + 1,
                                   ![state_writer].count = 0]
              /\ file' = [file EXCEPT ![PathOf(state_writer)] =
                                          FixHeader(@, wr[state_writer])]
         ELSE UNCHANGED <<cell, wr, file>>
    /\ Return(t, "start", "Ok", {})
    /\ lock' = 0
    /\ lw' = 0
    /\ sessOk' = TRUE
    /\ nOk' = Sat(nOk)
    /\ UNCHANGED <<is_recording, wlock, tw, cbVars, envVars, stopSess, flips,
                   epochErr, conc, cbHist>>

\* ------------------------------------------------------- stop_recording

\* The command is invoked: the caller thread is about to take STATE.lock().
StopCall(t) ==
    /\ pc[t] = "idle"
    /\ Launch(t, "sp_wait", "st_wait")
    /\ busy' = [n \in Ids |-> busy[n] \/ cbpc[n] # "idle"]
    /\ UNCHANGED <<sessionVars, lock, heapVars, lw, tw, cbVars, envVars, sessOk,
                   stopSess, epochVars, errlog, delivered, lost, wfail>>

\* A stop passes its check: what the history variables record of it.
StopPasses ==
    /\ stopSess' = IF sessOk THEN state_writer ELSE 0
    /\ sessOk' = FALSE
    /\ nOk' = 0
    /\ flips' = 0
    /\ epochErr' = FALSE
    /\ conc' = FALSE

\* Lines 209-213 with the check of line 210 left out.
StopEnter_NoCheck(t) ==
    /\ pc[t] = "sp_wait"
    /\ lock = 0
    /\ lock' = t
    /\ is_recording' = FALSE
    /\ StopPasses
    /\ Goto(t, "sp_stream")
    /\ UNCHANGED <<save_path, state_writer, state_stream, heapVars, lw, tw,
                   cbVars, envVars, cbHist>>

\* Lines 209-213 with the store of line 213 left out.
StopEnter_NoStore(t) ==
    /\ pc[t] = "sp_wait"
    /\ lock = 0
    /\ IF ~is_recording
         THEN /\ Return(t, "stop", "NotRecording", {})
              /\ UNCHANGED <<lock, sessOk, stopSess, epochVars>>
         ELSE /\ lock' = t
              /\ StopPasses
              /\ Goto(t, "sp_stream")
    /\ UNCHANGED <<sessionVars, heapVars, lw, tw, cbVars, envVars, cbHist>>

\* Lines 209-213: take the STATE lock; if not is_recording, return the
\* error; else store false and go on holding the lock.
StopEnter(t) ==
    /\ pc[t] = "sp_wait"
    /\ lock = 0
    /\ IF ~is_recording
         THEN /\ Return(t, "stop", "NotRecording", {})
              /\ UNCHANGED <<lock, is_recording, sessOk, stopSess, epochVars>>
         ELSE /\ lock' = t
              /\ is_recording' = FALSE
              /\ StopPasses
              /\ Goto(t, "sp_stream")
    /\ UNCHANGED <<save_path, state_writer, state_stream, heapVars, lw, tw,
                   cbVars, envVars, cbHist>>

\* Lines 216-218 with the stream left stored and alive (no take, no drop).
StopStream_NoDrop(t) ==
    /\ pc[t] = "sp_stream"
    /\ Goto(t, "sp_writer")
    /\ UNCHANGED <<sessionVars, lock, heapVars, lw, tw, cbVars, envVars, sessOk,
                   stopSess, epochVars, cbHist>>

\* Lines 216-218: take the stored stream and drop it.  No callback of the
\* stream starts after the drop; a callback that is running may still be
\* running when the drop returns (whether the drop waits for it is the
\* platform's choice, and waiting is one of the interleavings).
StopStream(t) ==
    /\ pc[t] = "sp_stream"
    /\ IF state_stream # 0
         THEN /\ streamSt' = [streamSt EXCEPT ![state_stream] = "dropped"]
              /\ state_stream' = 0
         ELSE UNCHANGED <<state_stream, streamSt>>
    /\ Goto(t, "sp_writer")
    /\ UNCHANGED <<is_recording, save_path, state_writer, lock, cell, wlock, wr,
                   file, lw, tw, cbVars, envVars, sessOk, stopSess, epochVars,
                   cbHist>>

\* Lines 216-218 on a platform whose stream drop returns only after the
\* running callback of the stream has returned.
StopStreamJoin(t) ==
    /\ state_stream # 0 => cbpc[state_stream] = "idle"
    /\ StopStream(t)

\* Line 221 reading the writer without taking it out of the Option.
StopTakeWriter_NoTake(t) ==
    /\ pc[t] = "sp_writer"
    /\ wlock[state_writer] = "free"
    /\ IF cell[state_writer]
         THEN /\ tw' = state_writer
              /\ wlock' = [wlock EXCEPT ![state_writer] = "stop"]
              /\ Goto(t, "sp_final")
         ELSE /\ Goto(t, "sp_path")
              /\ UNCHANGED <<tw, wlock>>
    /\ UNCHANGED <<sessionVars, lock, cell, wr, streamSt, file, lw, cbVars,
                   envVars, sessOk, stopSess, epochVars, cbHist>>

\* Line 221: lock the stored writer's mutex (blocking) and take the writer
\* out of the Option.  The guard is a temporary of the `if let` scrutinee: it
\* is held to the end of the `if let`, over finalize.
StopTakeWriter(t) ==
    /\ pc[t] = "sp_writer"
    /\ wlock[state_writer] = "free"
    /\ IF cell[state_writer]
         THEN /\ cell' = [cell EXCEPT ![state_writer] = FALSE]
              /\ tw' = state_writer
              /\ wlock' = [wlock EXCEPT ![state_writer] = "stop"]
              /\ Goto(t, "sp_final")
         ELSE /\ Goto(t, "sp_path")
              /\ UNCHANGED <<cell, tw, wlock>>
    /\ UNCHANGED <<sessionVars, lock, wr, streamSt, file, lw, cbVars, envVars,
                   sessOk, stopSess, epochVars, cbHist>>

\* The stop of a session returns: the history of the session's deliveries
\* is no longer read.
ForgetDeliveries(n) ==
    IF n = 0
      THEN UNCHANGED cbHist
      ELSE /\ delivered' = [delivered EXCEPT ![n] = <<>>]
           /\ lost' = [lost EXCEPT ![n] = FALSE]
           /\ busy' = [busy EXCEPT ![n] = FALSE]
           /\ wfail' = [wfail EXCEPT ![n] = FALSE]
           /\ errlog' = [errlog EXCEPT ![n] = FALSE]

\* Line 222: writer.finalize() consumes the writer.  On Ok the header holds
\* the count written; on Err `?` returns the error, dropping both guards.
StopFinalize(t) ==
    /\ pc[t] = "sp_final"
    /\ wr' = [wr EXCEPT ![tw].fin = @ + 1, ![tw].count = 0]
    /\ wlock' = [wlock EXCEPT ![tw] = "free"]
    /\ tw' = 0
    /\ \/ /\ file' = [file EXCEPT ![PathOf(tw)] = FixHeader(@, wr[tw])]
          /\ Goto(t, "sp_path")
          /\ UNCHANGED <<lock, stopSess, cbHist>>
       \/ /\ Return(t, "stop", "FinalizeFailed", {})
          /\ lock' = 0
          /\ stopSess' = 0
          /\ file' = file
          /\ ForgetDeliveries(stopSess)
    /\ UNCHANGED <<sessionVars, cell, streamSt, lw, cbVars, envVars, sessOk,
                   epochVars>>

\* Lines 226-233: take the stored path; None is an error, Some is returned.
StopPath(t) ==
    /\ pc[t] = "sp_path"
    /\ IF save_path = {}
         THEN Return(t, "stop", "MissingPath", {})
         ELSE Return(t, "stop", "Ok", save_path)
    /\ save_path' = {}
    /\ lock' = 0
    /\ stopSess' = 0
    /\ ForgetDeliveries(stopSess)
    /\ UNCHANGED <<is_recording, state_writer, state_stream, heapVars, lw, tw,
                   cbVars, envVars, sessOk, epochVars>>

\* ----------------------------------------------------- write_input_data

\* Line 272: the platform's audio thread calls the stream's callback with
\* a buffer.  One callback of a stream runs at a time.
CbDeliver(n, k) ==
    /\ streamSt[n] = "playing"
    /\ cbpc[n] = "idle"
    /\ fed + k <= MaxSamples
    /\ fed' = fed + k
    /\ delivered' = [delivered EXCEPT ![n] = @ \o Buffer(fed, k)]
    /\ busy' = [busy EXCEPT ![n] = @ \/ StopInFlight]
    /\ cbpc' = [cbpc EXCEPT ![n] = "called"]
    /\ cbbuf' = [cbbuf EXCEPT ![n] = Buffer(fed, k)]
    /\ ret' = NoRet
    /\ UNCHANGED <<sessionVars, lock, heapVars, pc, race, lw, tw, now, nextW, sessOk,
                   stopSess, epochVars, errlog, lost, wfail>>

\* Line 277 with a blocking lock(): the callback waits for the mutex.
CbTryLock_Blocking(n) ==
    /\ cbpc[n] = "called"
    /\ wlock[n] = "free"
    /\ IF cell[n]
         THEN /\ wlock' = [wlock EXCEPT ![n] = "cb"]
              /\ cbpc' = [cbpc EXCEPT ![n] = "writing"]
              /\ cbbuf' = cbbuf
         ELSE /\ cbpc' = [cbpc EXCEPT ![n] = "idle"]
              /\ cbbuf' = [cbbuf EXCEPT ![n] = <<>>]
              /\ wlock' = wlock
    /\ ret' = NoRet
    /\ UNCHANGED <<sessionVars, lock, cell, wr, streamSt, file, pc, race, lw, tw,
                   envVars, sessOk, stopSess, epochVars, errlog, delivered, lost, busy,
                   wfail>>

\* Lines 277-278: the callback tries the mutex of its own Arc clone
\* (writer_2) without waiting: on contention it returns and the buffer is
\* dropped; with the lock and a writer in the Option it goes on to write;
\* with the lock and None it returns.
CbTryLock(n) ==
    /\ cbpc[n] = "called"
    /\ IF wlock[n] # "free"
         THEN /\ lost' = [lost EXCEPT ![n] = TRUE]
              /\ cbpc' = [cbpc EXCEPT ![n] = "idle"]
              /\ cbbuf' = [cbbuf EXCEPT ![n] = <<>>]
              /\ wlock' = wlock
         ELSE /\ lost' = lost
              /\ IF cell[n]
                   THEN /\ wlock' = [wlock EXCEPT ![n] = "cb"]
                        /\ cbpc' = [cbpc EXCEPT ![n] = "writing"]
                        /\ cbbuf' = cbbuf
                   ELSE /\ cbpc' = [cbpc EXCEPT ![n] = "idle"]
                        /\ cbbuf' = [cbbuf EXCEPT ![n] = <<>>]
                        /\ wlock' = wlock
    /\ ret' = NoRet
    /\ UNCHANGED <<sessionVars, lock, cell, wr, streamSt, file, pc, race, lw, tw,
                   envVars, sessOk, stopSess, epochVars, errlog, delivered, busy, wfail>>

\* Lines 279-284 leaving the loop after the first sample of the buffer.
CbWrite_Break(n) ==
    /\ cbpc[n] = "writing"
    /\ \/ /\ file' = [file EXCEPT ![PathOf(n)] = AppendSample(@, Head(cbbuf[n]))]
          /\ wr' = [wr EXCEPT ![n].count = @ + 1]
          /\ wfail' = wfail
       \/ /\ wfail' = [wfail EXCEPT ![n] = TRUE]
          /\ UNCHANGED <<file, wr>>
    /\ cbbuf' = [cbbuf EXCEPT ![n] = <<>>]
    /\ wlock' = [wlock EXCEPT ![n] = "free"]
    /\ cbpc' = [cbpc EXCEPT ![n] = "idle"]
    /\ ret' = NoRet
    /\ UNCHANGED <<sessionVars, lock, cell, streamSt, pc, race, lw, tw, envVars,
                   sessOk, stopSess, epochVars, errlog, delivered, lost, busy>>

\* Lines 279-284 with a write that first waits for the STATE mutex.
CbWrite_NeedsState(n) ==
    /\ cbpc[n] = "writing"
    /\ lock = 0
    /\ \/ /\ file' = [file EXCEPT ![PathOf(n)] = AppendSample(@, Head(cbbuf[n]))]
          /\ wr' = [wr EXCEPT ![n].count = @ + 1]
          /\ wfail' = wfail
       \/ /\ wfail' = [wfail EXCEPT ![n] = TRUE]
          /\ UNCHANGED <<file, wr>>
    /\ cbbuf' = [cbbuf EXCEPT ![n] = Tail(@)]
    /\ IF Len(cbbuf[n]) = 1
         THEN /\ wlock' = [wlock EXCEPT ![n] = "free"]
              /\ cbpc' = [cbpc EXCEPT ![n] = "idle"]
         ELSE UNCHANGED <<wlock, cbpc>>
    /\ ret' = NoRet
    /\ UNCHANGED <<sessionVars, lock, cell, streamSt, pc, race, lw, tw, envVars,
                   sessOk, stopSess, epochVars, errlog, delivered, lost, busy>>

\* Lines 279-284: convert and write the next sample of the buffer; the
\* result of write_sample is discarded (.ok()).  After the last sample the
\* guard is dropped.
CbWrite(n) ==
    /\ cbpc[n] = "writing"
    /\ \/ /\ file' = [file EXCEPT ![PathOf(n)] = AppendSample(@, Head(cbbuf[n]))]
          /\ wr' = [wr EXCEPT ![n].count = @ + 1]
          /\ wfail' = wfail
       \/ /\ wfail' = [wfail EXCEPT ![n] = TRUE]
          /\ UNCHANGED <<file, wr>>
    /\ cbbuf' = [cbbuf EXCEPT ![n] = Tail(@)]
    /\ IF Len(cbbuf[n]) = 1
         THEN /\ wlock' = [wlock EXCEPT ![n] = "free"]
              /\ cbpc' = [cbpc EXCEPT ![n] = "idle"]
         ELSE UNCHANGED <<wlock, cbpc>>
    /\ ret' = NoRet
    /\ UNCHANGED <<sessionVars, lock, cell, streamSt, pc, race, lw, tw, envVars,
                   sessOk, stopSess, epochVars, errlog, delivered, lost, busy>>

\* Lines 145-147 with a handler that also ends the session.
StreamError_Deactivate(n) ==
    /\ streamSt[n] = "playing"
    /\ state_stream = n
    /\ ~errlog[n]
    /\ errlog' = [errlog EXCEPT ![n] = TRUE]
    /\ is_recording' = FALSE
    /\ ret' = NoRet
    /\ UNCHANGED <<save_path, state_writer, state_stream, lock, heapVars, pc,
                   race, lw, tw, cbVars, envVars, sessOk, stopSess, epochVars,
                   delivered, lost, busy, wfail>>

\* Lines 145-147: the platform reports an error of the stored stream to
\* err_fn, which prints it on stderr and does nothing else.  One report per
\* session is followed.
StreamError(n) ==
    /\ streamSt[n] = "playing"
    /\ state_stream = n
    /\ ~errlog[n]
    /\ errlog' = [errlog EXCEPT ![n] = TRUE]
    /\ ret' = NoRet
    /\ UNCHANGED <<sessionVars, lock, heapVars, pc, race, lw, tw, cbVars,
                   envVars, sessOk, stopSess, epochVars, delivered, lost, busy,
                   wfail>>

\* ---------------------------------------------------------- environment

\* Local::now() advances to a later second.  The clock is read only by
\* get_save_path (line 246), called from start's setup, and the seconds read
\* are only compared with each other: the time that passes is counted just
\* before a read, and `now` numbers the seconds in which a file was created.
Tick ==
    /\ now < MaxClock
    /\ \E t \in Threads : pc[t] = "st_setup"
    /\ file[get_save_path(now)].exists
    /\ now' = now + 1
    /\ ret' = NoRet
    /\ UNCHANGED <<sessionVars, lock, heapVars, pc, race, lw, tw, cbVars, nextW, fed,
                   sessOk, stopSess, epochVars, cbHist>>

Next ==
    \/ \E t \in Threads : StartCall(t)
    \/ \E t \in Threads : StartEnter(t)
    \/ \E t \in Threads : StartSetup(t)
    \/ \E t \in Threads : StartStream(t)
    \/ \E t \in Threads : StartStore(t)
    \/ \E t \in Threads : StopCall(t)
    \/ \E t \in Threads : StopEnter(t)
    \/ \E t \in Threads : StopStream(t)
    \/ \E t \in Threads : StopTakeWriter(t)
    \/ \E t \in Threads : StopFinalize(t)
    \/ \E t \in Threads : StopPath(t)
    \/ \E n \in Ids, k \in 1..MaxBuf : CbDeliver(n, k)
    \/ \E n \in Ids : CbTryLock(n)
    \/ \E n \in Ids : CbWrite(n)
    \/ \E n \in Ids : StreamError(n)
    \/ Tick

Spec == Init /\ [][Next]_vars

\* The same program on a platform whose stream drop joins the callback.
NextJoin ==
    \/ \E t \in Threads : StartCall(t)
    \/ \E t \in Threads : StartEnter(t)
    \/ \E t \in Threads : StartSetup(t)
    \/ \E t \in Threads : StartStream(t)
    \/ \E t \in Threads : StartStore(t)
    \/ \E t \in Threads : StopCall(t)
    \/ \E t \in Threads : StopEnter(t)
    \/ \E t \in Threads : StopStreamJoin(t)
    \/ \E t \in Threads : StopTakeWriter(t)
    \/ \E t \in Threads : StopFinalize(t)
    \/ \E t \in Threads : StopPath(t)
    \/ \E n \in Ids, k \in 1..MaxBuf : CbDeliver(n, k)
    \/ \E n \in Ids : CbTryLock(n)
    \/ \E n \in Ids : CbWrite(n)
    \/ \E n \in Ids : StreamError(n)
    \/ Tick

SpecJoin == Init /\ [][NextJoin]_vars

\* ================================================================ claims

AllIdle == \A t \in Threads : pc[t] = "idle"

\* What start and stop may change of the session and of the disk.
sessionAndDisk == <<is_recording, save_path, state_writer, state_stream, cell,
                    wr, streamSt, file>>

\* C1: among the start calls made with no stop in between, at most one
\* returns Ok; when one does, every other one that returned did so with
\* AlreadyRecording, and is_recording went from false to true exactly once.
C1_OneWinner ==
    /\ nOk <= 1
    /\ nOk = 1 => (~epochErr /\ flips = 1)

\* Two starts were in flight together on an Idle session; one has returned
\* Ok and the other has just returned AlreadyRecording.
C1_Witness ==
    /\ conc
    /\ nOk = 1
    /\ ret.op = "start"
    /\ ret.val = "AlreadyRecording"
    /\ AllIdle

\* C2: a start that takes the lock while the session is Recording returns
\* AlreadyRecording and changes nothing: flag, stored writer, stored stream,
\* stored path, the writers and the files are as before.
C2_StartWhileRecording ==
    [][\A t \in Threads :
          (sessOk /\ pc[t] = "st_wait" /\ pc'[t] # "st_wait")
          => /\ pc'[t] = "idle"
             /\ ret'.op = "start"
             /\ ret'.val = "AlreadyRecording"
             /\ UNCHANGED sessionAndDisk]_vars

\* A start has just been rejected while a session with a file was recording.
C2_Witness ==
    /\ sessOk
    /\ is_recording
    /\ ret.op = "start"
    /\ ret.val = "AlreadyRecording"
    /\ \E p \in save_path : file[p].exists /\ file[p].data # <<>>

\* C3: while no start has succeeded since creation or since the last stop
\* (failed starts allowed), a stop returns NotRecording and changes nothing.
C3_StopWithoutStart ==
    [][\A t \in Threads :
          (~sessOk /\ pc[t] = "sp_wait" /\ pc'[t] # "sp_wait")
          => /\ pc'[t] = "idle"
             /\ ret'.op = "stop"
             /\ ret'.val = "NotRecording"
             /\ UNCHANGED sessionAndDisk]_vars

\* C4: a start that returns an error after storing is_recording = true
\* leaves the session Idle: flag false, no writer, no stream.
C4_Rollback ==
    [][\A t \in Threads :
          (pc[t] \in {"st_setup", "st_stream"} /\ pc'[t] = "idle")
          => /\ ~is_recording'
             /\ ~cell'[state_writer']
             /\ state_stream' = 0]_vars

\* C5: a stop of a Recording session returns with the session inactive,
\* whether finalize succeeded or failed: flag false, stream taken and
\* dropped, writer taken; the return out of a failed finalize (line 222)
\* carries the finalize error and no path.
C5_StopLeavesInactive ==
    [][\A t \in Threads :
          (stopSess # 0 /\ pc[t] \in {"sp_final", "sp_path"} /\ pc'[t] = "idle")
          => /\ ~is_recording'
             /\ state_stream' = 0
             /\ streamSt'[stopSess] = "dropped"
             /\ ~cell'[state_writer']
             /\ ~cell'[stopSess]
             /\ tw' = 0
             /\ pc[t] = "sp_final" =>
                   (ret'.val = "FinalizeFailed" /\ ret'.path = {})]_vars

\* A stop whose finalize failed has just returned, and the session is
\* inactive.
C5_Witness ==
    /\ ret.op = "stop"
    /\ ret.val = "FinalizeFailed"
    /\ ~is_recording
    /\ state_stream = 0

\* C6: with no command in progress, is_recording holds iff a writer and a
\* stream are stored.
C6_ActiveIffWriterStream ==
    AllIdle => (is_recording <=> (cell[state_writer] /\ state_stream # 0))

\* C7: with no command in progress, a path is stored iff is_recording.
C7_PathIffActive ==
    AllIdle => ((save_path # {}) <=> is_recording)

\* C8: when stop finalizes a writer, the stream feeding it has been taken
\* and dropped; and a callback writes a sample to a writer only while that
\* writer has been neither finalized nor taken for finalization.
C8_StreamBeforeFinalize ==
    [][/\ \A t \in Threads :
             (pc[t] = "sp_final" /\ pc'[t] # "sp_final")
             => (state_stream = 0 /\ streamSt[tw] = "dropped")
       /\ \A n \in Ids :
             (cbpc[n] = "writing" /\ cbbuf'[n] # cbbuf[n])
             => (wr[n].fin = 0 /\ tw # n /\ cell[n])]_vars

\* A stop has dropped the stream and then finalized a writer that holds
\* samples written by the callback.
C8_Witness ==
    \E t \in Threads :
        /\ pc[t] = "sp_path"
        /\ stopSess # 0
        /\ streamSt[stopSess] = "dropped"
        /\ wr[stopSess].fin = 1
        /\ file[PathOf(stopSess)].hdr > 0

\* The stop of the session of writer n has returned (or the start that
\* built its stream failed): the stream is dropped and no stop is on it.
Stopped(n) == streamSt[n] = "dropped" /\ stopSess # n

\* C9: no writer is finalized twice, and the writer of a session that has
\* been stopped has been finalized once.
C9_FinalizedOnce ==
    \A n \in Ids :
        /\ wr[n].fin <= 1
        /\ Stopped(n) => wr[n].fin = 1

\* After a session was stopped and its writer finalized, a failed start left
\* is_recording set and a second stop passed the check: it found no writer
\* to finalize.
C9_Witness ==
    /\ ret.op = "stop"
    /\ ret.val = "MissingPath"
    /\ state_writer # 0
    /\ wr[state_writer].fin = 1
    /\ Stopped(state_writer)

\* The stop of session n returns Ok in this step, and no buffer of the
\* session was delivered while a stop was in flight.
RoundTripEnds(t, n) ==
    /\ n # 0
    /\ pc[t] = "sp_path"
    /\ pc'[t] = "idle"
    /\ ret'.val = "Ok"
    /\ ~busy[n]

\* The file at the returned path holds the delivered samples in order, the
\* header counts them, and no buffer was dropped.
RoundTripHolds(n) ==
    /\ ~lost[n]
    /\ \A p \in ret'.path :
          /\ file'[p].data = delivered[n]
          /\ file'[p].hdr = Len(delivered[n])

RaceStopReturns(t) ==
    /\ t = race.p
    /\ pc[t] \in StopPcs
    /\ pc'[t] = "idle"

\* C11 as stated: when the start of a start and a stop launched together on
\* an idle session succeeds, the stop has failed with NotRecording: the two
\* never both report success.
C11_StartWins ==
    [][\A t \in Threads :
          (RaceStopReturns(t) /\ race.ok) => ret'.val = "NotRecording"]_vars

\* C11 amended: the STATE lock decides.  A stop that returns before the
\* start does has taken the lock first and fails with NotRecording; a stop
\* that returns after the start returned Ok stops the session that start
\* began: it returns Ok with that session's path, or the finalize error.
C11_LockOrderDecides ==
    [][\A t \in Threads :
          RaceStopReturns(t)
          => IF race.ok
               THEN /\ ret'.val \in {"Ok", "FinalizeFailed"}
                    /\ ret'.val = "Ok"
                       => (stopSess # 0 /\ ret'.path = wr[stopSess].path)
               ELSE /\ ret'.val = "NotRecording"
                    /\ pc[race.s] = "st_wait"]_vars

\* In a race the start has returned Ok and the stop, having passed its check
\* and finalized the writer, is about to return the stored path.
C11_Witness ==
    /\ race.ok
    /\ pc[race.p] = "sp_path"
    /\ save_path # {}

\* C12: any two writers created by start calls have different destination
\* paths, also when both starts fall within the same clock second.
C12_UniquePaths ==
    \A m, n \in Ids :
        (m # n /\ wr[m].path # {} /\ wr[n].path # {})
        => wr[m].path # wr[n].path

\* C13: the callback never waits for a lock.  Once called it can always take
\* its next step; when it finds the writer mutex held, that step returns
\* with nothing written to any file or writer and the buffer dropped whole,
\* leaving the mutex to its holder; and no step of a callback changes the
\* holder of the STATE mutex.
C13_CallbackNeverWaits ==
    [][\A n \in Ids :
          /\ cbpc[n] = "called" => ENABLED CbTryLock(n)
          /\ (cbpc[n] = "called" /\ cbpc'[n] # "called" /\ wlock[n] # "free")
             => /\ cbpc'[n] = "idle"
                /\ cbbuf'[n] = <<>>
                /\ file' = file
                /\ wr' = wr
                /\ wlock' = wlock
          /\ cbpc'[n] # cbpc[n] => lock' = lock]_vars

\* A callback has returned without its buffer while stop held the writer
\* mutex over finalize.
C13_Witness ==
    \E n \in Ids :
        /\ lost[n]
        /\ cbpc[n] = "idle"
        /\ wlock[n] = "stop"

\* C14: no stop call fails with MissingPath: a stop that has passed the
\* active check finds a destination path stored.
C14_NoMissingPath ==
    /\ ret.val # "MissingPath"
    /\ \A t \in Threads : pc[t] = "sp_path" => save_path # {}

\* A stop returns Ok.
StopReturnsOk(t) ==
    /\ pc[t] = "sp_path"
    /\ pc'[t] = "idle"
    /\ ret'.val = "Ok"

\* C15: when a stop returns Ok, the header of the file at the returned path
\* declares the length of the payload written, and the returned path is the
\* one at which the most recent successful start created its writer.
C15_StopOkFinalized ==
    [][\A t \in Threads :
          StopReturnsOk(t)
          => /\ stopSess # 0
             /\ ret'.path = wr[stopSess].path
             /\ \A p \in ret'.path : file'[p].hdr = Len(file'[p].data)]_vars

\* C16: a stream error reported while the session records changes nothing of
\* the session: the step that reports it leaves is_recording, the stored
\* path, writer and stream, the writer itself, the stream and the files as
\* they are, and only steps of start and stop change the session.  The stop
\* that follows still finds the writer to finalize and, finalize done,
\* returns Ok with the session's path.
C16_StreamErrorNoEffect ==
    [][/\ (errlog' # errlog /\ pc' = pc) => UNCHANGED <<sessionAndDisk, wlock, lock>>
       /\ pc' = pc => UNCHANGED sessionVars
       /\ \A t \in Threads :
             (stopSess # 0 /\ errlog[stopSess])
             => /\ pc[t] = "sp_writer" => cell[state_writer]
                /\ (pc[t] = "sp_path" /\ pc'[t] = "idle")
                   => /\ ret'.val = "Ok"
                      /\ ret'.path = wr[stopSess].path
                      /\ wr[stopSess].fin = 1]_vars

\* The stop of a session whose stream reported an error has finalized the
\* writer and is about to return the stored path.
C16_Witness ==
    \E t \in Threads :
        /\ pc[t] = "sp_path"
        /\ stopSess # 0
        /\ errlog[stopSess]
        /\ wr[stopSess].fin = 1
        /\ save_path = wr[stopSess].path

\* The next step of the command running on thread t.
CommandStep(t) ==
    \/ StartEnter(t)
    \/ StartSetup(t)
    \/ StartStream(t)
    \/ StartStore(t)
    \/ StopEnter(t)
    \/ StopStream(t)
    \/ StopTakeWriter(t)
    \/ StopFinalize(t)
    \/ StopPath(t)

\* The command on thread t can take its next step, or it waits at line 221
\* for the writer mutex held by a callback that can take its next step.
CanProceed(t) ==
    \/ ENABLED CommandStep(t)
    \/ /\ pc[t] = "sp_writer"
       /\ wlock[state_writer] = "cb"
       /\ ENABLED CbWrite(state_writer)

\* C17: no deadlock.  Every command in flight can proceed, or waits for the
\* STATE mutex held by a command that can proceed; a callback in flight can
\* always take its next step.  With the finite number of steps of a command
\* and of a callback, every call made returns once the mutex is granted.
C17_NoDeadlock ==
    /\ \A t \in Threads :
          pc[t] # "idle"
          => \/ CanProceed(t)
             \/ /\ pc[t] \in {"st_wait", "sp_wait"}
                /\ lock \in Threads \ {t}
                /\ CanProceed(lock)
    /\ \A n \in Ids :
          /\ cbpc[n] = "called" => ENABLED CbTryLock(n)
          /\ cbpc[n] = "writing" => ENABLED CbWrite(n)

\* A call waits for the STATE mutex held by a stop that waits at line 221
\* for the writer mutex, held by a callback writing its buffer.
C17_Witness ==
    \E t \in Threads :
        /\ pc[t] \in {"st_wait", "sp_wait"}
        /\ lock \in Threads \ {t}
        /\ pc[lock] = "sp_writer"
        /\ wlock[state_writer] = "cb"

\* The samples in a sequence.
Range(q) == {q[i] : i \in 1..Len(q)}

\* C18: a start that succeeds stores the writer it has just created, not
\* finalized and not the one stored before, and the stream built on it; a
\* write of a callback changes only the writer its stream was built on; and
\* every sample in the file of a writer still open was delivered to the
\* stream of that writer, so none comes from an earlier session.
C18_NewSession ==
    [][/\ \A t \in Threads :
             (pc[t] = "st_store" /\ pc'[t] = "idle")
             => /\ ret'.val = "Ok"
                /\ state_writer' = lw /\ state_stream' = lw
                /\ lw # state_writer /\ lw = nextW - 1
                /\ cell'[lw] /\ wr'[lw].fin = 0
                /\ streamSt'[lw] = "playing"
                /\ save_path' = wr[lw].path
       /\ \A n \in Ids :
             /\ cbbuf'[n] # cbbuf[n]
                => \A m \in Ids \ {n} : wr'[m] = wr[m]
             /\ cell'[n]
                => \A p \in wr'[n].path :
                      Range(file'[p].data) \subseteq Range(delivered'[n])
      ]_vars

\* A second session is recording and has written a sample, after an earlier
\* session that wrote a sample was finalized.
C18_Witness ==
    \E m, n \in Ids :
        /\ m # n
        /\ wr[m].fin = 1 /\ file[PathOf(m)].hdr > 0
        /\ is_recording /\ state_writer = n /\ cell[n]
        /\ wr[n].count > 0

\* C19: every stop call that returns leaves the session inactive, whatever
\* state it found (also the one left by a failed start or by a failed
\* finalize), and a start that finds the session inactive is accepted: it
\* goes on to its setup instead of returning AlreadyRecording.
C19_StartAcceptedAfterStop ==
    [][\A t \in Threads :
          /\ (pc[t] \in StopPcs /\ pc'[t] = "idle") => ~is_recording'
          /\ (pc[t] = "st_wait" /\ pc'[t] # "st_wait" /\ ~is_recording)
             => (pc'[t] = "st_setup" /\ ret'.val # "AlreadyRecording")]_vars

\* A start has been accepted in the state left by a stop whose finalize
\* failed: the stale path is still stored and the writer has been taken.
C19_Witness ==
    \E t \in Threads :
        /\ pc[t] = "st_setup"
        /\ save_path # {}
        /\ ~cell[state_writer]

\* C20: when the stream drop returns only after the running callback has
\* returned (and one callback runs at a time per stream), a callback that is
\* about to try the writer mutex always finds it free, and no buffer is
\* dropped for contention.
C20_NoContention ==
    \A n \in Ids :
        /\ cbpc[n] = "called" => wlock[n] = "free"
        /\ ~lost[n]

\* A stop waits for the stream drop while a callback of the stream, holding
\* the writer mutex, is writing its buffer.
C20_Witness ==
    \E t \in Threads :
        /\ pc[t] = "sp_stream"
        /\ state_stream # 0
        /\ cbpc[state_stream] = "writing"
        /\ wlock[state_stream] = "cb"

====
